---- MODULE Spec2Model ----
(***************************************************************************)
(* A model of the profiling-analysis scripts of oxidized-cryptolib:        *)
(*   - the Live Sampler loop of scripts/profile_concurrent.py (Spec, and   *)
(*     SpecLive for its termination);                                      *)
(*   - the flame-graph categorizers, extractors and report entry points    *)
(*     (SpecFlame);                                                        *)
(*   - the run comparison of benchmarks/compare_results.py (SpecCompare);  *)
(*   - the log scan of analyze_profiling.analyze_log_patterns (SpecLog);   *)
(*   - the diagnostic statements of the flame-graph reports (SpecFindings).*)
(*                                                                         *)
(* Python values are tagged records [t |-> type, v |-> value]; None is the *)
(* record [t |-> "none"].  A float quotient a / b is kept exact as the     *)
(* record [num |-> a, den |-> b].                                         *)
(***************************************************************************)
EXTENDS Integers, Sequences, FiniteSets, TLC

VARIABLES
    \* ---- Live Sampler (profile_concurrent.main)
    pc,             \* "Polling" | "Stopped" | "Crashed" (uncaught exception) | "Idle"
    now,            \* the wall clock, time.time(), in whole seconds
    start_time,     \* main: start_time
    duration,       \* main: duration
    prev_snapshot,  \* main: prev_snapshot (None or a StatsSnapshot)
    out_row,        \* the last row printed to stdout (None before the first)
    fault,          \* the uncaught exception that ended main, or "none"
    latest,         \* history: the snapshot extracted by the latest successful poll
    last,           \* history: what the last step did: "start", "nodata" (failed
                    \* poll), "baseline" (snapshot stored, no row), "row" (snapshot
                    \* stored, row printed), "raised", "exit", "clock"
    adjusts,        \* number of backward steps the wall clock has taken
    \* ---- Flame-graph scripts
    label,          \* the frame label handed to the categorizers (<<>>: none)
    cats,           \* the category each categorizer returned for label, or None
    svg,            \* the flame-graph artifact read by the report scripts
    run,            \* what the last report script run produced, or None
    \* ---- Run comparison (benchmarks/compare_results.py)
    cmp_pc,         \* "Idle" | "Running" | "Done" | "Crashed" (uncaught exception)
    workload,       \* index in workloads of the next workload to compare
    bench_files,    \* the two benchmark files of the workload compared last, or None
    cmp_out,        \* what the loop printed for that workload, or None
    \* ---- Log scan (analyze_profiling.analyze_log_patterns)
    log_file,       \* the lines of the debug log, or None
    patterns,       \* the counters analyze_log_patterns returned, or None
    \* ---- Diagnostic statements of the reports
    tally,          \* the category counts a report diagnoses, or None
    findings        \* the diagnostic statements the report printed, or None

samplerVars == <<pc, now, start_time, duration, prev_snapshot, out_row,
                 fault, latest, last, adjusts>>

flameVars == <<label, cats, svg, run>>

compareVars == <<cmp_pc, workload, bench_files, cmp_out>>

logVars == <<log_file, patterns>>

findingsVars == <<tally, findings>>

toolVars == <<compareVars, logVars, findingsVars>>

vars == <<samplerVars, flameVars, toolVars>>

----------------------------------------------------------------------------
(* Bounds of the sampler model *)

MaxDuration == 3
MaxCount == 1
MaxLatency == 0
MaxAdjust == 1
BlockSize == 1024

(* Bounds of the flame-graph model *)

MaxFragments == 2
MaxTitles == 2

(* Python values *)

None == [t |-> "none"]

\* The comparison and the log scan have not been started
ToolsIdle ==
    /\ cmp_pc = "Idle"
    /\ workload = 1
    /\ bench_files = None
    /\ cmp_out = None
    /\ log_file = None
    /\ patterns = None
    /\ tally = None
    /\ findings = None
Absent == [t |-> "absent", v |-> 0]
PyInt(n) == [t |-> "int", v |-> n]
PyStr == [t |-> "str", v |-> 0]
PyNull == [t |-> "null", v |-> 0]
IsNum(x) == x.t = "int"

\* dict.get(key, default): the value under the key, the default when absent
DictGet(d, key, default) == IF d[key].t = "absent" THEN default ELSE d[key]

----------------------------------------------------------------------------
(* The stats command and what it printed *)

CounterKeys == {"total_reads", "total_writes", "total_metadata_ops", "bytes_read"}
PlainKeys == CounterKeys \cup {"bytes_written", "read_latency_avg_ms",
              "write_latency_avg_ms", "metadata_latency_avg_ms", "total_errors"}
CacheKeys == {"hits", "misses", "entries"}

GoodCache == [t |-> "dict", v |-> [k \in CacheKeys |-> PyInt(0)]]

\* A well-typed payload whose four rate counters are c
GoodStats(c) ==
    [k \in PlainKeys \cup {"cache"} |->
        IF k \in CounterKeys THEN PyInt(c[k])
        ELSE IF k = "cache" THEN GoodCache ELSE PyInt(0)]

\* The same payload with one field missing or holding a value of another type
StatsWith(c, key, val) == [GoodStats(c) EXCEPT ![key] = val]
StatsWithCache(c, key, val) ==
    [GoodStats(c) EXCEPT !["cache"] = [t |-> "dict", v |-> [GoodCache.v EXCEPT ![key] = val]]]

ZeroCounters == [k \in CounterKeys |-> 0]

\* The cumulative counters of a mount that has served a reads of BlockSize bytes
\* each and b writes, every one with a metadata operation
Counters(a, b) ==
    [k \in CounterKeys |->
        IF k = "total_reads" THEN a
        ELSE IF k = "total_writes" THEN b
        ELSE IF k = "total_metadata_ops" THEN a + b
        ELSE a * BlockSize]

Payloads ==
    {GoodStats(Counters(a, b)) : a, b \in 0..MaxCount}
    \cup {StatsWith(ZeroCounters, k, x) : k \in PlainKeys, x \in {Absent, PyStr}}
    \cup {StatsWith(ZeroCounters, k, PyNull) : k \in {"total_reads", "total_errors"}}
    \cup {StatsWith(ZeroCounters, "cache", x) : x \in {Absent, PyStr, PyNull, PyInt(0)}}
    \cup {StatsWithCache(ZeroCounters, k, x) : k \in CacheKeys, x \in {Absent, PyStr}}
    \cup {StatsWithCache(ZeroCounters, "entries", PyNull)}

\* What subprocess.run(["oxcrypt", "stats"]) did: raised (not installed, timed out),
\* exited non-zero, printed no line starting with '{', printed such a line that is
\* not JSON, or printed a JSON object.
CommandResults ==
    {[how |-> h, json |-> None] : h \in {"raises", "nonzero", "nojson", "badjson"}}
    \cup {[how |-> "json", json |-> p] : p \in Payloads}

get_mount_stats(result) ==
    IF result.how = "raises" THEN None
    ELSE IF result.how = "nonzero" THEN None
    ELSE IF result.how = "json" THEN result.json
    ELSE None

\* stats.get('cache', {}).get(key, 0): AttributeError unless cache is an object
CacheRaises(stats) == stats["cache"].t \notin {"absent", "dict"}
CacheGet(stats, key) ==
    IF stats["cache"].t = "absent" THEN PyInt(0)
    ELSE DictGet(stats["cache"].v, key, PyInt(0))

extract_snapshot(stats, clock) ==
    IF CacheRaises(stats) THEN None
    ELSE [t |-> "snapshot",
          timestamp |-> clock,
          total_reads |-> DictGet(stats, "total_reads", PyInt(0)),
          total_writes |-> DictGet(stats, "total_writes", PyInt(0)),
          total_metadata_ops |-> DictGet(stats, "total_metadata_ops", PyInt(0)),
          bytes_read |-> DictGet(stats, "bytes_read", PyInt(0)),
          bytes_written |-> DictGet(stats, "bytes_written", PyInt(0)),
          read_latency_avg_ms |-> DictGet(stats, "read_latency_avg_ms", PyInt(0)),
          write_latency_avg_ms |-> DictGet(stats, "write_latency_avg_ms", PyInt(0)),
          metadata_latency_avg_ms |-> DictGet(stats, "metadata_latency_avg_ms", PyInt(0)),
          cache_hits |-> CacheGet(stats, "hits"),
          cache_misses |-> CacheGet(stats, "misses"),
          cache_entries |-> CacheGet(stats, "entries"),
          errors |-> DictGet(stats, "total_errors", PyInt(0))]

----------------------------------------------------------------------------
(* One row of the table *)

Kilo == 1024

\* a / b as Python evaluates it on these operands: the exception it raises, or "none"
SubFault(a, b) == IF IsNum(a) /\ IsNum(b) THEN "none" ELSE "TypeError"
DivFault(dt) == IF dt = 0 THEN "ZeroDivisionError" ELSE "none"

\* cur - prev, the division by dt forgotten
RateUndivided(cur, prev, dt) == [num |-> cur.v - prev.v, den |-> 1]

\* (cur - prev) / dt
Rate(cur, prev, dt) == [num |-> cur.v - prev.v, den |-> dt]

\* x < k for the quotient x = num / den, den # 0
RatLess(x, k) == IF x.den > 0 THEN x.num < k * x.den ELSE x.num > k * x.den

format_throughput(bytes_per_sec) ==
    IF RatLess(bytes_per_sec, Kilo)
    THEN [unit |-> "B", num |-> bytes_per_sec.num, den |-> bytes_per_sec.den]
    ELSE IF RatLess(bytes_per_sec, Kilo * Kilo)
    THEN [unit |-> "K", num |-> bytes_per_sec.num, den |-> bytes_per_sec.den * Kilo]
    ELSE [unit |-> "M", num |-> bytes_per_sec.num, den |-> bytes_per_sec.den * Kilo * Kilo]

\* f"{x:>8.2f}": ValueError for a str, TypeError for None
FormatFloatFault(x) ==
    IF IsNum(x) THEN "none" ELSE IF x.t = "str" THEN "ValueError" ELSE "TypeError"
\* f"{x:>8}": a str formats, None does not
FormatFault(x) == IF x.t = "null" THEN "TypeError" ELSE "none"
\* StatsSnapshot.cache_hit_rate: hits + misses, then total > 0
HitRateFault(s) ==
    IF IsNum(s.cache_hits) /\ IsNum(s.cache_misses) THEN "none" ELSE "TypeError"

FirstFault(fs) ==
    IF \A i \in 1..Len(fs) : fs[i] = "none" THEN "none"
    ELSE fs[CHOOSE i \in 1..Len(fs) :
                fs[i] # "none" /\ \A j \in 1..(i - 1) : fs[j] = "none"]

\* The exception raised by lines 138-151 for this pair of snapshots, in the order
\* Python evaluates them, or "none"
RowFault(cur, prev) ==
    LET dt == cur.timestamp - prev.timestamp
    IN FirstFault(<<
        SubFault(cur.total_reads, prev.total_reads), DivFault(dt),
        SubFault(cur.total_writes, prev.total_writes),
        SubFault(cur.total_metadata_ops, prev.total_metadata_ops),
        SubFault(cur.bytes_read, prev.bytes_read),
        FormatFloatFault(cur.read_latency_avg_ms),
        FormatFloatFault(cur.write_latency_avg_ms),
        FormatFloatFault(cur.metadata_latency_avg_ms),
        HitRateFault(cur),
        FormatFault(cur.cache_entries),
        FormatFault(cur.errors)>>)

\* The row printed by lines 138-151
Row(cur, prev, start) ==
    LET dt == cur.timestamp - prev.timestamp
    IN [t |-> "row",
        elapsed |-> cur.timestamp - start,
        reads_per_sec |-> Rate(cur.total_reads, prev.total_reads, dt),
        writes_per_sec |-> Rate(cur.total_writes, prev.total_writes, dt),
        meta_per_sec |-> Rate(cur.total_metadata_ops, prev.total_metadata_ops, dt),
        throughput |-> format_throughput(Rate(cur.bytes_read, prev.bytes_read, dt))]

----------------------------------------------------------------------------
(* main: the polling loop *)

SamplerInit ==
    /\ pc = "Polling"
    /\ now = 0
    /\ start_time = 0
    /\ duration \in 1..MaxDuration
    /\ prev_snapshot = None
    /\ out_row = None
    /\ fault = "none"
    /\ latest = None
    /\ last = "start"
    /\ adjusts = 0
    /\ label = <<>>
    /\ cats = None
    /\ svg = None
    /\ run = [s \in {"af", "simple", "hot"} |-> None]
    /\ ToolsIdle

\* The first baseline kept for the whole run, later snapshots dropped
StoredFirstOnly(current, prev) == IF prev = None THEN current ELSE prev

\* The snapshot main stores at line 153
StoredSnapshot(current, prev) == current

\* One pass through the body of the while loop (lines 123-154): the poll takes
\* lat seconds and the command ends as result.
Iterate(result, lat) ==
    /\ pc = "Polling"
    /\ now - start_time < duration
    /\ LET stats == get_mount_stats(result)
           clock == now + lat
           current == IF stats = None THEN None ELSE extract_snapshot(stats, clock)
           raised == IF current = None \/ prev_snapshot = None THEN "none"
                     ELSE RowFault(current, prev_snapshot)
       IN  IF current = None
           THEN \* lines 126-134: no data this tick
                /\ now' = clock + 1
                /\ last' = "nodata"
                /\ UNCHANGED <<pc, prev_snapshot, out_row, fault, latest>>
           ELSE IF raised # "none"
           THEN \* an exception leaves main
                /\ pc' = "Crashed"
                /\ fault' = raised
                /\ now' = clock
                /\ latest' = current
                /\ last' = "raised"
                /\ UNCHANGED <<prev_snapshot, out_row>>
           ELSE /\ IF prev_snapshot = None
                   THEN /\ last' = "baseline"
                        /\ UNCHANGED out_row
                   ELSE /\ out_row' = Row(current, prev_snapshot, start_time)
                        /\ last' = "row"
                /\ prev_snapshot' = StoredSnapshot(current, prev_snapshot)
                /\ latest' = current
                /\ now' = clock + 1
                /\ UNCHANGED <<pc, fault>>
    /\ UNCHANGED <<start_time, duration, adjusts>>
    /\ UNCHANGED <<flameVars, toolVars>>

\* The while condition is false: line 156
LoopExit ==
    /\ pc = "Polling"
    /\ ~(now - start_time < duration)
    /\ pc' = "Stopped"
    /\ last' = "exit"
    /\ UNCHANGED <<now, start_time, duration, prev_snapshot, out_row, fault,
                   latest, adjusts>>
    /\ UNCHANGED <<flameVars, toolVars>>

\* time.time() is the wall clock: the system may set it back while main sleeps
ClockSetBack ==
    /\ pc = "Polling"
    /\ adjusts < MaxAdjust
    /\ now' = now - 1
    /\ adjusts' = adjusts + 1
    /\ last' = "clock"
    /\ UNCHANGED <<pc, start_time, duration, prev_snapshot, out_row, fault, latest>>
    /\ UNCHANGED <<flameVars, toolVars>>

SamplerNext ==
    \/ \E result \in CommandResults, lat \in 0..MaxLatency : Iterate(result, lat)
    \/ LoopExit
    \/ ClockSetBack

Init == SamplerInit
Next == SamplerNext
Spec == Init /\ [][Next]_vars

----------------------------------------------------------------------------
(* Properties of the Live Sampler *)

WellTyped(s) ==
    /\ s # None
    /\ \A x \in {s.total_reads, s.total_writes, s.total_metadata_ops, s.bytes_read,
                  s.bytes_written, s.read_latency_avg_ms, s.write_latency_avg_ms,
                  s.metadata_latency_avg_ms, s.cache_hits, s.cache_misses,
                  s.cache_entries, s.errors} : IsNum(x)

RatEq(x, y) == x.num * y.den = y.num * x.den
UnitScale(u) == IF u = "B" THEN 1 ELSE IF u = "K" THEN Kilo ELSE Kilo * Kilo
BytesPerSec(tp) == [num |-> tp.num * UnitScale(tp.unit), den |-> tp.den]

\* C1: no poll outcome ends the loop: from Polling the sampler goes on polling
\* after one wait, or stops, and it stops only once the elapsed time has reached
\* the configured duration.
C1_NoPollEndsLoop ==
    [][pc = "Polling" =>
        /\ pc' \in {"Polling", "Stopped"}
        /\ (pc' = "Stopped" => now - start_time >= duration)
        /\ (last' \in {"nodata", "baseline", "row"} => now' >= now + 1)]_vars

\* C2: a successful, well-typed poll whose snapshot carries the timestamp of the
\* stored snapshot computes no rate, raises nothing and leaves the loop polling.
C2_ZeroElapsedSkipped ==
    [][(/\ pc = "Polling"
        /\ last' \in {"baseline", "row", "raised"}
        /\ WellTyped(prev_snapshot)
        /\ WellTyped(latest')
        /\ latest'.timestamp = prev_snapshot.timestamp)
       => (pc' = "Polling" /\ fault' = "none" /\ last' = "baseline" /\ out_row' = out_row)]_vars

\* C3: while the loop lives, the one stored snapshot is the snapshot of the most
\* recent successful poll: None until the first successful poll, which stores
\* its snapshot and prints no rate; replaced by every later one; left as it
\* is by a failed poll.
C3_StoredIsLatest ==
    pc # "Crashed" =>
        /\ prev_snapshot.t \in {"none", "snapshot"}
        /\ prev_snapshot = latest
        /\ (last = "start" => prev_snapshot = None)
        /\ (last = "baseline" => prev_snapshot # None /\ out_row = None)
        /\ (last = "row" => prev_snapshot # None /\ out_row # None)

\* C3 witness: after two successful polls a failed one, the second snapshot kept
C3_Witness ==
    /\ pc = "Polling"
    /\ last = "nodata"
    /\ out_row # None
    /\ prev_snapshot # None
    /\ prev_snapshot.timestamp > 0

\* C4: a successful poll with a stored snapshot taken earlier (elapsed > 0) and
\* numeric counters prints a row, and each rate of a printed row is the
\* counter's increase since the preceding successful snapshot over the seconds
\* between the two.
C4_RatesAreDeltas ==
    [][(/\ last' \in {"baseline", "row", "raised"}
        /\ latest # None
        /\ latest'.timestamp > latest.timestamp)
       => LET dt == latest'.timestamp - latest.timestamp
              delta(f) == [num |-> latest'[f].v - latest[f].v, den |-> dt]
          IN /\ (WellTyped(latest) /\ WellTyped(latest') => last' = "row")
             /\ (last' = "row" =>
                   /\ RatEq(out_row'.reads_per_sec, delta("total_reads"))
                   /\ RatEq(out_row'.writes_per_sec, delta("total_writes"))
                   /\ RatEq(out_row'.meta_per_sec, delta("total_metadata_ops"))
                   /\ RatEq(BytesPerSec(out_row'.throughput), delta("bytes_read")))]_vars

\* C4 witness: a row whose read rate is one read over two seconds
C4_Witness ==
    /\ last = "row"
    /\ out_row.reads_per_sec = [num |-> 1, den |-> 2]
    /\ out_row.throughput.unit = "B"

----------------------------------------------------------------------------
(* Strings.  A Python str is the sequence of its characters. *)

UpperCase == <<"A", "B", "C", "D", "E", "F", "G", "H", "I", "J", "K", "L", "M", "N", "O", "P", "Q", "R", "S", "T", "U", "V", "W", "X", "Y", "Z">>
LowerCase == <<"a", "b", "c", "d", "e", "f", "g", "h", "i", "j", "k", "l", "m", "n", "o", "p", "q", "r", "s", "t", "u", "v", "w", "x", "y", "z">>

\* str.lower(), character by character
lower(s) ==
    [i \in 1..Len(s) |->
        IF \E k \in 1..Len(UpperCase) : UpperCase[k] = s[i]
        THEN LowerCase[CHOOSE k \in 1..Len(UpperCase) : UpperCase[k] = s[i]]
        ELSE s[i]]

\* sub in s
In(sub, s) ==
    \E i \in 0..(Len(s) - Len(sub)) : SubSeq(s, i + 1, i + Len(sub)) = sub

\* any(x in s for x in subs)
AnyIn(subs, s) == \E x \in subs : In(x, s)

----------------------------------------------------------------------------
(* The three categorizers *)

\* 'lock' and 'mutex' tested before 'dashmap' and 'cache'
IsCachingAfterSync(low) ==
    (In(<<"d", "a", "s", "h", "m", "a", "p">>, low) \/ In(<<"c", "a", "c", "h", "e">>, low)) /\ ~(In(<<"l", "o", "c", "k">>, low) \/ In(<<"m", "u", "t", "e", "x">>, low))

\* analyze_flamegraph.categorize_functions, line 50
IsCaching(low) == In(<<"d", "a", "s", "h", "m", "a", "p">>, low) \/ In(<<"c", "a", "c", "h", "e">>, low)

\* analyze_flamegraph.categorize_functions, lines 38-55: the category of one label
category_of(func) ==
    LET low == lower(func)
    IN  IF In(<<"f", "u", "s", "e", "r", ":", ":">>, func) \/ In(<<"f", "u", "s", "e", "_">>, func) THEN "FUSE Layer"
        ELSE IF In(<<"o", "x", "c", "r", "y", "p", "t", "_", "c", "o", "r", "e", ":", ":">>, func) \/ In(<<"o", "x", "c", "r", "y", "p", "t", "_">>, func) THEN "Crypto Core"
        ELSE IF In(<<"e", "n", "c", "r", "y", "p", "t">>, low) \/ In(<<"d", "e", "c", "r", "y", "p", "t">>, low) THEN "Encryption/Decryption"
        ELSE IF In(<<"a", "e", "s">>, low) \/ In(<<"g", "c", "m">>, low) \/ In(<<"s", "i", "v">>, low) THEN "AES Primitives"
        ELSE IF In(<<"t", "o", "k", "i", "o", ":", ":">>, func) \/ In(<<"a", "s", "y", "n", "c">>, low) THEN "Async Runtime"
        ELSE IF In(<<"s", "t", "d", ":", ":", "i", "o">>, func) \/ In(<<":", ":", "f", "s", ":", ":">>, func) THEN "I/O Operations"
        ELSE IF IsCaching(low) THEN "Caching"
        ELSE IF In(<<"l", "o", "c", "k">>, low) \/ In(<<"m", "u", "t", "e", "x">>, low) THEN "Synchronization"
        ELSE "Other"

\* 'pthread', 'mutex' and 'lock' tested before 'cond_wait'
IsLockWaitAfterSync(name_lower) ==
    /\ In(<<"_", "_", "p", "t", "h", "r", "e", "a", "d", "_", "c", "o", "n", "d", "_", "w", "a", "i", "t">>, name_lower) \/ In(<<"c", "o", "n", "d", "_", "w", "a", "i", "t">>, name_lower)
    /\ ~(In(<<"p", "t", "h", "r", "e", "a", "d">>, name_lower) \/ In(<<"m", "u", "t", "e", "x">>, name_lower) \/ In(<<"l", "o", "c", "k">>, name_lower))

\* analyze_flamegraph_simple.categorize, line 40
IsLockWait(name_lower) ==
    In(<<"_", "_", "p", "t", "h", "r", "e", "a", "d", "_", "c", "o", "n", "d", "_", "w", "a", "i", "t">>, name_lower) \/ In(<<"c", "o", "n", "d", "_", "w", "a", "i", "t">>, name_lower)

\* analyze_flamegraph_simple.categorize
categorize(func_name) ==
    LET name_lower == lower(func_name)
    IN  IF IsLockWait(name_lower)
        THEN "Lock Wait"
        ELSE IF In(<<"p", "t", "h", "r", "e", "a", "d">>, name_lower) \/ In(<<"m", "u", "t", "e", "x">>, name_lower)
                \/ In(<<"l", "o", "c", "k">>, name_lower)
        THEN "Synchronization"
        ELSE IF In(<<"m", "o", "k", "a">>, name_lower) \/ In(<<"c", "a", "c", "h", "e">>, name_lower)
                \/ In(<<"e", "v", "i", "c", "t">>, name_lower)
        THEN "Cache"
        ELSE IF In(<<"t", "o", "k", "i", "o", ":", ":", "r", "u", "n", "t", "i", "m", "e", ":", ":", "t", "a", "s", "k">>, name_lower) \/ In(<<"r", "u", "n", "_", "t", "a", "s", "k">>, name_lower)
                \/ In(<<"p", "o", "l", "l">>, name_lower)
        THEN "Async/Task"
        ELSE IF In(<<"s", "p", "a", "w", "n">>, name_lower) \/ In(<<"b", "l", "o", "c", "k", "i", "n", "g">>, name_lower)
        THEN "Task Spawning"
        ELSE IF In(<<"e", "n", "c", "r", "y", "p", "t">>, name_lower) \/ In(<<"d", "e", "c", "r", "y", "p", "t">>, name_lower)
                \/ In(<<"g", "c", "m">>, name_lower) \/ In(<<"s", "i", "v">>, name_lower)
        THEN "Encryption"
        ELSE IF In(<<"w", "r", "i", "t", "e">>, name_lower) /\ In(<<"o", "p", "e", "r", "a", "t", "i", "o", "n", "s">>, name_lower)
        THEN "Write Operations"
        ELSE IF In(<<"r", "e", "a", "d">>, name_lower) /\ In(<<"o", "p", "e", "r", "a", "t", "i", "o", "n", "s">>, name_lower)
        THEN "Read Operations"
        ELSE IF In(<<"g", "e", "t", "a", "t", "t", "r">>, name_lower) \/ In(<<"l", "o", "o", "k", "u", "p">>, name_lower)
                \/ In(<<"s", "t", "a", "t">>, name_lower)
        THEN "Metadata Ops"
        ELSE "Other"

\* extract_flamegraph_hotspots.categorize_function
categorize_function(func_name) ==
    LET name_lower == lower(func_name)
    IN  IF AnyIn({<<"p", "t", "h", "r", "e", "a", "d">>, <<"c", "o", "n", "d", "_", "w", "a", "i", "t">>, <<"w", "a", "i", "t">>, <<"l", "o", "c", "k">>, <<"m", "u", "t", "e", "x">>, <<"f", "u", "t", "e", "x">>}, name_lower)
        THEN "Lock/Sync"
        ELSE IF AnyIn({<<"m", "o", "k", "a">>, <<"c", "a", "c", "h", "e">>, <<"e", "v", "i", "c", "t">>, <<"i", "n", "s", "e", "r", "t">>}, name_lower)
        THEN "Cache"
        ELSE IF AnyIn({<<"r", "e", "a", "d">>, <<"w", "r", "i", "t", "e">>, <<"g", "e", "t", "a", "t", "t", "r">>, <<"l", "o", "o", "k", "u", "p">>, <<"s", "t", "a", "t">>}, name_lower)
        THEN "FUSE Ops"
        ELSE IF AnyIn({<<"e", "n", "c", "r", "y", "p", "t">>, <<"d", "e", "c", "r", "y", "p", "t">>, <<"a", "e", "s">>, <<"g", "c", "m">>, <<"s", "i", "v">>, <<"c", "r", "y", "p", "t", "o">>}, name_lower)
        THEN "Crypto"
        ELSE IF AnyIn({<<"t", "o", "k", "i", "o">>, <<"s", "p", "a", "w", "n">>, <<"t", "a", "s", "k">>, <<"e", "x", "e", "c", "u", "t", "o", "r">>, <<"p", "a", "r", "k">>}, name_lower)
        THEN "Async Runtime"
        ELSE IF AnyIn({<<"d", "a", "s", "h", "m", "a", "p">>, <<"d", "a", "s", "h">>, <<"h", "a", "s", "h", "m", "a", "p">>, <<"m", "a", "p">>}, name_lower)
        THEN "Data Structure"
        ELSE IF AnyIn({<<"a", "r", "c">>, <<"c", "l", "o", "n", "e">>, <<"d", "r", "o", "p">>}, name_lower)
        THEN "Memory"
        ELSE "Other"

\* Pieces of frame labels as the profiled service produces them
Fragments ==
    {<<"f", "u", "s", "e", "r", ":", ":">>, <<"F", "u", "s", "e", "r", ":", ":">>, <<"o", "x", "c", "r", "y", "p", "t", "_", "c", "o", "r", "e", ":", ":">>, <<"E", "n", "c", "r", "y", "p", "t">>, <<"a", "e", "s">>, <<"t", "o", "k", "i", "o", ":", ":">>,
     <<"s", "t", "d", ":", ":", "i", "o">>, <<"D", "a", "s", "h", "M", "a", "p">>, <<"c", "a", "c", "h", "e">>, <<"l", "o", "c", "k">>, <<"m", "u", "t", "e", "x">>, <<"_", "_", "p", "t", "h", "r", "e", "a", "d", "_", "c", "o", "n", "d", "_", "w", "a", "i", "t">>,
     <<"m", "o", "k", "a">>, <<"p", "o", "l", "l">>, <<"s", "p", "a", "w", "n">>, <<"w", "r", "i", "t", "e">>, <<"r", "e", "a", "d">>, <<"o", "p", "e", "r", "a", "t", "i", "o", "n", "s">>, <<"g", "e", "t", "a", "t", "t", "r">>,
     <<"c", "l", "o", "n", "e">>, <<"m", "a", "i", "n">>}

\* The labels made of at most n fragments
RECURSIVE LabelsOf(_)
LabelsOf(n) ==
    IF n = 0 THEN {<<>>}
    ELSE LabelsOf(n - 1) \cup {l \o f : l \in LabelsOf(n - 1), f \in Fragments}

Labels == LabelsOf(MaxFragments) \ {<<>>}

----------------------------------------------------------------------------
(* The taxonomies: each categorizer's rules in their fixed order.  A rule      *)
(* matches a label when, for one of its alternatives, every keyword occurs in  *)
(* the label (ci: in the lower-cased label).                                   *)

CS(k) == [k |-> k, ci |-> FALSE]
CI(k) == [k |-> k, ci |-> TRUE]
AnyOf(cat, kws) == [cat |-> cat, alts |-> {{w} : w \in kws}]
AllOf(cat, kws) == [cat |-> cat, alts |-> {kws}]

RuleMatches(rule, s) ==
    LET low == lower(s)
    IN \E alt \in rule.alts : \A w \in alt : In(w.k, IF w.ci THEN low ELSE s)

flamegraph_taxonomy == <<
    AnyOf("FUSE Layer", {CS(<<"f", "u", "s", "e", "r", ":", ":">>), CS(<<"f", "u", "s", "e", "_">>)}),
    AnyOf("Crypto Core", {CS(<<"o", "x", "c", "r", "y", "p", "t", "_", "c", "o", "r", "e", ":", ":">>), CS(<<"o", "x", "c", "r", "y", "p", "t", "_">>)}),
    AnyOf("Encryption/Decryption", {CI(<<"e", "n", "c", "r", "y", "p", "t">>), CI(<<"d", "e", "c", "r", "y", "p", "t">>)}),
    AnyOf("AES Primitives", {CI(<<"a", "e", "s">>), CI(<<"g", "c", "m">>), CI(<<"s", "i", "v">>)}),
    AnyOf("Async Runtime", {CS(<<"t", "o", "k", "i", "o", ":", ":">>), CI(<<"a", "s", "y", "n", "c">>)}),
    AnyOf("I/O Operations", {CS(<<"s", "t", "d", ":", ":", "i", "o">>), CS(<<":", ":", "f", "s", ":", ":">>)}),
    AnyOf("Caching", {CI(<<"d", "a", "s", "h", "m", "a", "p">>), CI(<<"c", "a", "c", "h", "e">>)}),
    AnyOf("Synchronization", {CI(<<"l", "o", "c", "k">>), CI(<<"m", "u", "t", "e", "x">>)})>>

simple_taxonomy == <<
    AnyOf("Lock Wait", {CI(<<"_", "_", "p", "t", "h", "r", "e", "a", "d", "_", "c", "o", "n", "d", "_", "w", "a", "i", "t">>), CI(<<"c", "o", "n", "d", "_", "w", "a", "i", "t">>)}),
    AnyOf("Synchronization", {CI(<<"p", "t", "h", "r", "e", "a", "d">>), CI(<<"m", "u", "t", "e", "x">>), CI(<<"l", "o", "c", "k">>)}),
    AnyOf("Cache", {CI(<<"m", "o", "k", "a">>), CI(<<"c", "a", "c", "h", "e">>), CI(<<"e", "v", "i", "c", "t">>)}),
    AnyOf("Async/Task", {CI(<<"t", "o", "k", "i", "o", ":", ":", "r", "u", "n", "t", "i", "m", "e", ":", ":", "t", "a", "s", "k">>), CI(<<"r", "u", "n", "_", "t", "a", "s", "k">>), CI(<<"p", "o", "l", "l">>)}),
    AnyOf("Task Spawning", {CI(<<"s", "p", "a", "w", "n">>), CI(<<"b", "l", "o", "c", "k", "i", "n", "g">>)}),
    AnyOf("Encryption", {CI(<<"e", "n", "c", "r", "y", "p", "t">>), CI(<<"d", "e", "c", "r", "y", "p", "t">>), CI(<<"g", "c", "m">>), CI(<<"s", "i", "v">>)}),
    AllOf("Write Operations", {CI(<<"w", "r", "i", "t", "e">>), CI(<<"o", "p", "e", "r", "a", "t", "i", "o", "n", "s">>)}),
    AllOf("Read Operations", {CI(<<"r", "e", "a", "d">>), CI(<<"o", "p", "e", "r", "a", "t", "i", "o", "n", "s">>)}),
    AnyOf("Metadata Ops", {CI(<<"g", "e", "t", "a", "t", "t", "r">>), CI(<<"l", "o", "o", "k", "u", "p">>), CI(<<"s", "t", "a", "t">>)})>>

hotspots_taxonomy == <<
    AnyOf("Lock/Sync", {CI(<<"p", "t", "h", "r", "e", "a", "d">>), CI(<<"c", "o", "n", "d", "_", "w", "a", "i", "t">>), CI(<<"w", "a", "i", "t">>), CI(<<"l", "o", "c", "k">>),
                        CI(<<"m", "u", "t", "e", "x">>), CI(<<"f", "u", "t", "e", "x">>)}),
    AnyOf("Cache", {CI(<<"m", "o", "k", "a">>), CI(<<"c", "a", "c", "h", "e">>), CI(<<"e", "v", "i", "c", "t">>), CI(<<"i", "n", "s", "e", "r", "t">>)}),
    AnyOf("FUSE Ops", {CI(<<"r", "e", "a", "d">>), CI(<<"w", "r", "i", "t", "e">>), CI(<<"g", "e", "t", "a", "t", "t", "r">>), CI(<<"l", "o", "o", "k", "u", "p">>),
                       CI(<<"s", "t", "a", "t">>)}),
    AnyOf("Crypto", {CI(<<"e", "n", "c", "r", "y", "p", "t">>), CI(<<"d", "e", "c", "r", "y", "p", "t">>), CI(<<"a", "e", "s">>), CI(<<"g", "c", "m">>), CI(<<"s", "i", "v">>),
                     CI(<<"c", "r", "y", "p", "t", "o">>)}),
    AnyOf("Async Runtime", {CI(<<"t", "o", "k", "i", "o">>), CI(<<"s", "p", "a", "w", "n">>), CI(<<"t", "a", "s", "k">>), CI(<<"e", "x", "e", "c", "u", "t", "o", "r">>),
                            CI(<<"p", "a", "r", "k">>)}),
    AnyOf("Data Structure", {CI(<<"d", "a", "s", "h", "m", "a", "p">>), CI(<<"d", "a", "s", "h">>), CI(<<"h", "a", "s", "h", "m", "a", "p">>), CI(<<"m", "a", "p">>)}),
    AnyOf("Memory", {CI(<<"a", "r", "c">>), CI(<<"c", "l", "o", "n", "e">>), CI(<<"d", "r", "o", "p">>)})>>
----------------------------------------------------------------------------
(* Flame-graph artifacts.  An artifact is the sequence of its <title> elements; *)
(* the text of a title is "label (count unit, pct%)", kept as its fields:       *)
(* ann is FALSE for a title that holds only a label, and an empty pct stands    *)
(* for "label (count unit)".  xml_ok tells whether the file is well-formed XML. *)

Digits == {"0", "1", "2", "3", "4", "5", "6", "7", "8", "9"}
DigitValue(c) == CHOOSE n \in 0..9 : <<"0", "1", "2", "3", "4", "5", "6", "7", "8", "9">>[n + 1] = c

\* \d+
IsDigits(s) == Len(s) > 0 /\ \A i \in 1..Len(s) : s[i] \in Digits
\* \d+(?:\.\d+)?
IsDecimal(s) ==
    \/ IsDigits(s)
    \/ \E i \in 2..(Len(s) - 1) :
          /\ s[i] = "."
          /\ IsDigits(SubSeq(s, 1, i - 1))
          /\ IsDigits(SubSeq(s, i + 1, Len(s)))
\* [\d.]+
IsDotDigits(s) == Len(s) > 0 /\ \A i \in 1..Len(s) : s[i] \in Digits \cup {"."}
\* float(s) of a [\d.]+ text returns: at most one dot, at least one digit
FloatParses(s) ==
    /\ IsDotDigits(s)
    /\ Cardinality({i \in 1..Len(s) : s[i] = "."}) <= 1
    /\ \E i \in 1..Len(s) : s[i] \in Digits

\* int(s) of a \d+ text
RECURSIVE int(_)
int(s) ==
    IF s = <<>> THEN 0
    ELSE 10 * int(SubSeq(s, 1, Len(s) - 1)) + DigitValue(s[Len(s)])

\* float(s) of a \d+(?:\.\d+)? text that stands for a whole number ("3", "3.0"):
\* sample counts are whole numbers
float_whole(s) ==
    IF IsDigits(s) THEN int(s)
    ELSE int(SubSeq(s, 1, (CHOOSE i \in 1..Len(s) : s[i] = ".") - 1))

\* str.replace(old, new)
RECURSIVE replace(_, _, _)
replace(s, old, new) ==
    IF Len(s) < Len(old) THEN s
    ELSE IF SubSeq(s, 1, Len(old)) = old
    THEN new \o replace(SubSeq(s, Len(old) + 1, Len(s)), old, new)
    ELSE <<Head(s)>> \o replace(Tail(s), old, new)

\* The entities of a label decoded: lines 24 of analyze_flamegraph_simple, and
\* what the XML parser does to the text of an element
decode_entities(s) ==
    replace(replace(replace(s, <<"&", "l", "t", ";">>, <<"<">>), <<"&", "g", "t", ";">>, <<">">>), <<"&", "a", "m", "p", ";">>, <<"&">>)

Title(l, c, u, p) == [ann |-> TRUE, label |-> l, count |-> c, unit |-> u, pct |-> p]
PlainTitle(l) == [ann |-> FALSE, label |-> l, count |-> <<>>, unit |-> "", pct |-> <<>>]

\* The labels of the annotations
ArtLabels == {<<"_", "_", "p", "t", "h", "r", "e", "a", "d", "_", "c", "o", "n", "d", "_", "w", "a", "i", "t">>,
              <<"p", "t", "h", "r", "e", "a", "d", "_", "m", "u", "t", "e", "x", "_", "l", "o", "c", "k">>,
              <<"m", "o", "k", "a", ":", ":", "c", "a", "c", "h", "e">>}
EntityLabel == <<"V", "e", "c", "&", "l", "t", ";", "u", "8", "&", "g", "t", ";">>
CountTexts == {<<"1">>, <<"3">>}

\* The titles an artifact is made of: annotations "label (N samples, 1.5%)",
\* one of them with N = 0 and one with a label that holds XML entities, the
\* singular "label (1 sample, 1.5%)", and annotations that are corrupt or
\* partial: a percentage "1..2", no percentage, no count, no annotation at all.
Titles ==
    {Title(l, c, "samples", <<"1", ".", "5">>) : l \in ArtLabels, c \in CountTexts}
    \cup {Title(<<"m", "o", "k", "a", ":", ":", "c", "a", "c", "h", "e">>, <<"0">>, "samples", <<"1", ".", "5">>),
          Title(EntityLabel, <<"3">>, "samples", <<"1", ".", "5">>),
          Title(<<"_", "_", "p", "t", "h", "r", "e", "a", "d", "_", "c", "o", "n", "d", "_", "w", "a", "i", "t">>, <<"1">>, "sample", <<"1", ".", "5">>),
          Title(<<"m", "o", "k", "a", ":", ":", "c", "a", "c", "h", "e">>, <<"1">>, "sample", <<"1", ".", "5">>)}
    \cup {Title(<<"m", "a", "i", "n">>, <<"3">>, "samples", <<"1", ".", ".", "2">>),
          Title(<<"m", "a", "i", "n">>, <<"3">>, "samples", <<>>),
          Title(<<"m", "a", "i", "n">>, <<>>, "samples", <<"1", ".", "5">>),
          Title(<<"m", "a", "i", "n">>, <<"3", ".", "0">>, "samples", <<"1", ".", "5">>),
          PlainTitle(<<"a", "l", "l">>)}

RECURSIVE SeqsUpTo(_, _)
SeqsUpTo(S, n) ==
    IF n = 0 THEN {<<>>}
    ELSE SeqsUpTo(S, n - 1)
         \cup {Append(q, x) : q \in {r \in SeqsUpTo(S, n - 1) : Len(r) = n - 1}, x \in S}

Artifacts ==
    {[titles |-> ts, xml_ok |-> TRUE] : ts \in SeqsUpTo(Titles, MaxTitles)}
    \cup {[titles |-> <<t>>, xml_ok |-> FALSE] : t \in Titles}

----------------------------------------------------------------------------
(* Shared list and dict operations *)

\* sum(x.samples for x in seq)
RECURSIVE SumSamples(_)
SumSamples(seq) == IF seq = <<>> THEN 0 ELSE Head(seq).samples + SumSamples(Tail(seq))

\* d[k] = n, the count already under k thrown away
Overwrite(d, k, n) ==
    IF k \in DOMAIN d THEN [d EXCEPT ![k] = n] ELSE d @@ (k :> n)

\* defaultdict: d[k] += n
AddTo(d, k, n) ==
    IF k \in DOMAIN d THEN [d EXCEPT ![k] = @ + n] ELSE d @@ (k :> n)

\* dict.get(k, 0)
GetOr0(d, k) == IF k \in DOMAIN d THEN d[k] ELSE 0

\* sorted(seq, key=samples, reverse=True): stable, equal counts keep their order
RECURSIVE SortDesc(_)
SortDesc(seq) ==
    IF seq = <<>> THEN <<>>
    ELSE LET init == SortDesc(SubSeq(seq, 1, Len(seq) - 1))
             x == seq[Len(seq)]
             k == Cardinality({i \in 1..Len(init) : init[i].samples >= x.samples})
         IN SubSeq(init, 1, k) \o <<x>> \o SubSeq(init, k + 1, Len(init))

\* count / total * 100
Pct(count, total) == [num |-> count * 100, den |-> total]
ZeroPct == [num |-> 0, den |-> 1]

NoDict == [k \in {} |-> 0]

----------------------------------------------------------------------------
(* analyze_flamegraph.py *)

\* The regular expression of line 16 matches the title
parse_flamegraph_matches(t) ==
    /\ t.ann
    /\ Len(t.label) > 0
    /\ IsDecimal(t.count)
    /\ t.unit \in {"samples", "sample"}
    /\ IsDotDigits(t.pct)

RECURSIVE parse_flamegraph(_)
parse_flamegraph(titles) ==
    IF titles = <<>> THEN <<>>
    ELSE LET t == titles[Len(titles)]
             init == parse_flamegraph(SubSeq(titles, 1, Len(titles) - 1))
         IN IF parse_flamegraph_matches(t) /\ FloatParses(t.pct)
            THEN Append(init, [name |-> t.label, samples |-> float_whole(t.count),
                               percentage |-> t.pct])
            ELSE init

RECURSIVE categorize_functions(_)
categorize_functions(functions) ==
    IF functions = <<>> THEN NoDict
    ELSE LET f == functions[Len(functions)]
         IN AddTo(categorize_functions(SubSeq(functions, 1, Len(functions) - 1)),
                  category_of(f.name), f.samples)

\* print_analysis(parse_flamegraph(svg_path)): the subsystem breakdown
analyze_flamegraph_main(artifact) ==
    LET functions == parse_flamegraph(artifact.titles)
        categories == categorize_functions(functions)
        total_samples == SumSamples(functions)
    IN [script |-> "analyze_flamegraph",
        outcome |-> "report",
        fault |-> "none",
        extracted |-> TRUE,
        samples |-> functions,
        found |-> Len(functions),     \* line 109: "Found N unique function samples"
        top |-> SortDesc(functions),
        total |-> total_samples,
        categories |-> categories,
        pcts |-> [c \in DOMAIN categories |->
                    IF total_samples > 0 THEN Pct(categories[c], total_samples)
                    ELSE ZeroPct]]

----------------------------------------------------------------------------
(* scripts/analyze_flamegraph_simple.py *)

\* The regular expression of line 18 matches the title
extract_hotspots_matches(t) ==
    /\ t.ann
    /\ IsDigits(t.count)
    /\ t.unit \in {"samples", "sample"}
    /\ IsDotDigits(t.pct)

\* float(percentage) raises ValueError for some match: nothing is returned
extract_hotspots_raises(titles) ==
    \E i \in 1..Len(titles) :
        extract_hotspots_matches(titles[i]) /\ ~FloatParses(titles[i].pct)

RECURSIVE hotspots_of(_)
hotspots_of(titles) ==
    IF titles = <<>> THEN <<>>
    ELSE LET t == titles[Len(titles)]
             init == hotspots_of(SubSeq(titles, 1, Len(titles) - 1))
         IN IF extract_hotspots_matches(t)
            THEN Append(init, [name |-> decode_entities(t.label),
                               samples |-> int(t.count), percentage |-> t.pct])
            ELSE init

extract_hotspots(titles) == SortDesc(hotspots_of(titles))

\* lines 97-100
RECURSIVE simple_categories(_)
simple_categories(hotspots) ==
    IF hotspots = <<>> THEN NoDict
    ELSE LET h == hotspots[Len(hotspots)]
         IN AddTo(simple_categories(SubSeq(hotspots, 1, Len(hotspots) - 1)),
                  categorize(h.name), h.samples)

\* A list that is never taken for empty
NeverEmpty(list) == FALSE

\* not hotspots (simple line 70), not functions (hotspots line 97)
IsEmpty(list) == list = <<>>

\* The percentage is above the threshold: pct > threshold
Exceeds(pct, threshold) == pct.num > threshold * pct.den

\* A run ended by an uncaught exception; extracted tells whether the extractor
\* had returned its samples before
Raised(script, exc, extracted, samples) ==
    [script |-> script, outcome |-> "raised", fault |-> exc, extracted |-> extracted,
     samples |-> samples, total |-> SumSamples(samples), categories |-> NoDict,
     pcts |-> NoDict]

\* A run ended by an early return, after a message
Ended(script, how, samples) ==
    [script |-> script, outcome |-> how, fault |-> "none", extracted |-> TRUE,
     samples |-> samples, total |-> 0, categories |-> NoDict, pcts |-> NoDict]

\* lines 119-187: the statements of DETAILED FINDINGS
simple_findings(categories, total_samples) ==
    LET lock_wait_pct == Pct(GetOr0(categories, "Lock Wait"), total_samples)
    IN {"critical bottleneck"}                 \* lines 127-128, unconditional
       \cup (IF Exceeds(lock_wait_pct, 20)     \* line 131
             THEN {"primary bottleneck", "actual cpu work", "root cause",
                   "optimization strategies"}
             ELSE {})

simple_main(artifact) ==
    IF extract_hotspots_raises(artifact.titles)
    THEN Raised("analyze_flamegraph_simple", "ValueError", FALSE, <<>>)
    ELSE LET hotspots == extract_hotspots(artifact.titles)
             total_samples == SumSamples(hotspots)
             categories == simple_categories(hotspots)
         IN IF IsEmpty(hotspots)
            THEN Ended("analyze_flamegraph_simple", "no hotspots", hotspots)
            ELSE IF total_samples = 0
            THEN \* line 109: samples / total_samples
                 Raised("analyze_flamegraph_simple", "ZeroDivisionError", TRUE, hotspots)
            ELSE [script |-> "analyze_flamegraph_simple",
                  outcome |-> "report",
                  fault |-> "none",
                  extracted |-> TRUE,
                  samples |-> hotspots,
                  total |-> total_samples,
                  categories |-> categories,
                  pcts |-> [c \in DOMAIN categories |-> Pct(categories[c], total_samples)],
                  lock_wait_pct |-> Pct(GetOr0(categories, "Lock Wait"), total_samples),
                  sync_pct |-> Pct(GetOr0(categories, "Synchronization"), total_samples),
                  findings |-> simple_findings(categories, total_samples)]

----------------------------------------------------------------------------
(* scripts/extract_flamegraph_hotspots.py *)

\* re.search(r'\((\d+) samples', func_text) finds a match in the title's text
extract_flamegraph_data_matches(t) ==
    /\ t.ann
    /\ IsDigits(t.count)
    /\ t.unit = "samples"

\* function_times[name] += samples on the insertion-ordered dict, kept as the
\* sequence of its items
AddItem(items, name, n) ==
    IF \E i \in 1..Len(items) : items[i].name = name
    THEN [i \in 1..Len(items) |->
            IF items[i].name = name
            THEN [name |-> name, samples |-> items[i].samples + n]
            ELSE items[i]]
    ELSE Append(items, [name |-> name, samples |-> n])

RECURSIVE function_times(_)
function_times(titles) ==
    IF titles = <<>> THEN <<>>
    ELSE LET t == titles[Len(titles)]
             init == function_times(SubSeq(titles, 1, Len(titles) - 1))
         IN IF extract_flamegraph_data_matches(t)
            THEN AddItem(init, decode_entities(t.label), int(t.count))
            ELSE init

extract_flamegraph_data(artifact) ==
    IF ~artifact.xml_ok THEN <<>>   \* ET.parse raises: line 57-59
    ELSE SortDesc(function_times(artifact.titles))

\* lines 121-124
RECURSIVE hotspot_categories(_)
hotspot_categories(functions) ==
    IF functions = <<>> THEN NoDict
    ELSE LET f == functions[Len(functions)]
         IN AddTo(hotspot_categories(SubSeq(functions, 1, Len(functions) - 1)),
                  categorize_function(f.name), f.samples)

\* lines 145-149: a category's percentage, 0 for an empty total
KeyPct(categories, category, total_samples) ==
    IF total_samples > 0 THEN Pct(GetOr0(categories, category), total_samples)
    ELSE ZeroPct

\* a > b for two percentages of the same total
PctAbove(a, b) == a.num * b.den > b.num * a.den

\* lines 144-202: the statements printed under INTERPRETATION
hotspots_findings(categories, total_samples) ==
    LET lock_sync_pct == KeyPct(categories, "Lock/Sync", total_samples)
        cache_pct == KeyPct(categories, "Cache", total_samples)
        crypto_pct == KeyPct(categories, "Crypto", total_samples)
        fuse_ops_pct == KeyPct(categories, "FUSE Ops", total_samples)
        async_pct == KeyPct(categories, "Async Runtime", total_samples)
    IN (IF Exceeds(lock_sync_pct, 30) THEN {"lock contention"} ELSE {})
       \cup (IF Exceeds(cache_pct, 15) /\ PctAbove(cache_pct, crypto_pct)
             THEN {"cache bottleneck"} ELSE {})
       \cup (IF Exceeds(crypto_pct, 20) THEN {"crypto"} ELSE {})
       \cup (IF Exceeds(fuse_ops_pct, 20) THEN {"fuse operations"} ELSE {})
       \cup (IF Exceeds(async_pct, 20) THEN {"async runtime"} ELSE {})

hotspots_main(artifact) ==
    LET functions == extract_flamegraph_data(artifact)
        total_samples == SumSamples(functions)
        categories == hotspot_categories(functions)
    IN IF IsEmpty(functions)
       THEN Ended("extract_flamegraph_hotspots", "no data", functions)
       ELSE IF total_samples = 0
       THEN \* line 112: samples / total_samples
            Raised("extract_flamegraph_hotspots", "ZeroDivisionError", TRUE, functions)
       ELSE [script |-> "extract_flamegraph_hotspots",
             outcome |-> "report",
             fault |-> "none",
             extracted |-> TRUE,
             samples |-> functions,
             total |-> total_samples,
             categories |-> categories,
             pcts |-> [c \in DOMAIN categories |-> Pct(categories[c], total_samples)],
             label_pcts |-> [i \in 1..Len(functions) |->
                               Pct(functions[i].samples, total_samples)],
             findings |-> hotspots_findings(categories, total_samples)]

----------------------------------------------------------------------------
(* The flame-graph scripts: a categorizer applied to a label, and the report   *)
(* scripts run on an artifact                                                  *)

Scripts == {"af", "simple", "hot"}
NoRuns == [s \in Scripts |-> None]

SamplerIdle ==
    /\ pc = "Idle"
    /\ now = 0
    /\ start_time = 0
    /\ duration = 0
    /\ prev_snapshot = None
    /\ out_row = None
    /\ fault = "none"
    /\ latest = None
    /\ last = "start"
    /\ adjusts = 0

LabelInit ==
    /\ SamplerIdle
    /\ label \in Labels
    /\ cats = None
    /\ svg = None
    /\ run = NoRuns
    /\ ToolsIdle

ArtifactInit ==
    /\ SamplerIdle
    /\ label = <<>>
    /\ cats = None
    /\ svg \in Artifacts
    /\ run = NoRuns
    /\ ToolsIdle

\* Each categorizer applied to the label
CategorizeLabel ==
    /\ label # <<>>
    /\ cats = None
    /\ cats' = [af |-> category_of(label),
                simple |-> categorize(label),
                hot |-> categorize_function(label)]
    /\ UNCHANGED <<label, svg, run>>
    /\ UNCHANGED <<samplerVars, toolVars>>

\* python analyze_flamegraph.py <svg>
RunAnalyzeFlamegraph ==
    /\ svg # None
    /\ run' = [run EXCEPT !["af"] = analyze_flamegraph_main(svg)]
    /\ UNCHANGED <<label, cats, svg>>
    /\ UNCHANGED <<samplerVars, toolVars>>

\* python scripts/analyze_flamegraph_simple.py
RunSimple ==
    /\ svg # None
    /\ run' = [run EXCEPT !["simple"] = simple_main(svg)]
    /\ UNCHANGED <<label, cats, svg>>
    /\ UNCHANGED <<samplerVars, toolVars>>

\* python scripts/extract_flamegraph_hotspots.py
RunHotspots ==
    /\ svg # None
    /\ run' = [run EXCEPT !["hot"] = hotspots_main(svg)]
    /\ UNCHANGED <<label, cats, svg>>
    /\ UNCHANGED <<samplerVars, toolVars>>

FlameInit == LabelInit \/ ArtifactInit
FlameNext == CategorizeLabel \/ RunAnalyzeFlamegraph \/ RunSimple \/ RunHotspots
SpecFlame == FlameInit /\ [][FlameNext]_vars

----------------------------------------------------------------------------
(* Properties of the flame-graph scripts *)

RECURSIVE SumDict(_)
SumDict(d) ==
    IF DOMAIN d = {} THEN 0
    ELSE LET k == CHOOSE x \in DOMAIN d : TRUE
         IN d[k] + SumDict([x \in DOMAIN d \ {k} |-> d[x]])

Reported(s) == run[s] # None /\ run[s].outcome = "report"

\* C5: in every report over samples of total count T > 0, the per-category
\* counts add up to T: every extracted sample is counted in exactly one category.
C5_CategoriesPartition ==
    \A s \in Scripts :
        (Reported(s) /\ SumSamples(run[s].samples) > 0)
        => SumDict(run[s].categories) = SumSamples(run[s].samples)

\* C5 witness: the three scripts have reported on an artifact whose two samples
\* (count 4 together) fall into one category
C5_Witness ==
    /\ \A s \in Scripts : Reported(s) /\ SumSamples(run[s].samples) = 4
    /\ Len(run["simple"].samples) = 2
    /\ Cardinality(DOMAIN run["simple"].categories) = 1

\* The category of the first rule of the taxonomy the label matches, "Other" if
\* it matches none
FirstMatch(taxonomy, s) ==
    LET M == {i \in 1..Len(taxonomy) : RuleMatches(taxonomy[i], s)}
    IN IF M = {} THEN "Other"
       ELSE taxonomy[CHOOSE i \in M : \A j \in M : i <= j].cat

MatchCount(taxonomy, s) ==
    Cardinality({i \in 1..Len(taxonomy) : RuleMatches(taxonomy[i], s)})

\* C6: each categorizer gives a label the category of the first rule, in the
\* taxonomy's order, that the label matches, and "Other" exactly when no rule
\* matches; "lockcache" matches the lock rule and the cache rule of each
\* taxonomy and gets the category of the earlier of the two.
C6_FirstRuleWins ==
    cats # None =>
        /\ cats.af = FirstMatch(flamegraph_taxonomy, label)
        /\ cats.simple = FirstMatch(simple_taxonomy, label)
        /\ cats.hot = FirstMatch(hotspots_taxonomy, label)
        /\ (cats.af = "Other" <=> MatchCount(flamegraph_taxonomy, label) = 0)
        /\ (cats.simple = "Other" <=> MatchCount(simple_taxonomy, label) = 0)
        /\ (cats.hot = "Other" <=> MatchCount(hotspots_taxonomy, label) = 0)
        /\ (label = <<"l", "o", "c", "k", "c", "a", "c", "h", "e">> =>
              cats = [af |-> "Caching", simple |-> "Synchronization", hot |-> "Lock/Sync"])

\* C6 witness: the label "lockcache", which matches two rules of each taxonomy,
\* has been categorized
C6_Witness ==
    /\ cats # None
    /\ label = <<"l", "o", "c", "k", "c", "a", "c", "h", "e">>
    /\ MatchCount(flamegraph_taxonomy, label) = 2
    /\ MatchCount(simple_taxonomy, label) = 2
    /\ MatchCount(hotspots_taxonomy, label) = 2

HasCondWait(name) == In(<<"c", "o", "n", "d", "_", "w", "a", "i", "t">>, lower(name))
HasSyncWord(name) ==
    In(<<"p", "t", "h", "r", "e", "a", "d">>, lower(name)) \/ In(<<"m", "u", "t", "e", "x">>, lower(name)) \/ In(<<"l", "o", "c", "k">>, lower(name))
IsLockWaitSample(h) == HasCondWait(h.name)
IsSyncSample(h) == ~HasCondWait(h.name) /\ HasSyncWord(h.name)

\* C7: analyze_flamegraph_simple.categorize gives "Lock Wait" to exactly the
\* labels containing 'cond_wait' (in any case), whatever else they contain, and
\* "Synchronization" to the labels containing 'pthread', 'mutex' or 'lock' but
\* not 'cond_wait'; the report's lock-wait percentage is the share of the samples
\* whose label contains 'cond_wait', its synchronization percentage the share of
\* the others containing 'pthread', 'mutex' or 'lock'.
C7_LockWaitSplit ==
    /\ cats # None =>
          /\ (cats.simple = "Lock Wait" <=> HasCondWait(label))
          /\ (~HasCondWait(label) /\ HasSyncWord(label) => cats.simple = "Synchronization")
          /\ (cats.simple = "Synchronization" => HasSyncWord(label))
    /\ Reported("simple") =>
          LET r == run["simple"]
          IN /\ r.lock_wait_pct = Pct(SumSamples(SelectSeq(r.samples, IsLockWaitSample)), r.total)
             /\ r.sync_pct = Pct(SumSamples(SelectSeq(r.samples, IsSyncSample)), r.total)

\* C7 witness: a report over a '__pthread_cond_wait' sample and a
\* 'pthread_mutex_lock' sample, one in each bucket
C7_Witness ==
    /\ Reported("simple")
    /\ run["simple"].categories = ("Lock Wait" :> 1) @@ ("Synchronization" :> 3)
    /\ run["simple"].lock_wait_pct = [num |-> 100, den |-> 4]

\* C8: no report script raises a division error, and every category percentage
\* of a report is count / total * 100, or 0 when the total is 0.
C8_PercentagesDefined ==
    \A s \in Scripts :
        run[s] # None =>
            /\ run[s].fault # "ZeroDivisionError"
            /\ (run[s].outcome = "report" =>
                  \A c \in DOMAIN run[s].categories :
                      run[s].pcts[c] = IF run[s].total = 0 THEN ZeroPct
                                       ELSE Pct(run[s].categories[c], run[s].total))

\* "label (N samples, P%)" with N and P numbers
IsWellFormed(t) ==
    t.ann /\ IsDigits(t.count) /\ t.unit = "samples" /\ FloatParses(t.pct)
\* no annotation, no count, or a percentage that is no number
IsCorrupt(t) ==
    ~t.ann \/ t.count = <<>> \/ (IsDotDigits(t.pct) /\ ~FloatParses(t.pct))

RECURSIVE SumCounts(_)
SumCounts(titles) ==
    IF titles = <<>> THEN 0 ELSE int(Head(titles).count) + SumCounts(Tail(titles))

\* C9: on a well-formed XML artifact made of annotations "label (N samples, P%)"
\* and of corrupt or partial titles, every extractor returns without raising and
\* yields the well-formed annotations and nothing else.
C9_CorruptAnnotationsSkipped ==
    (/\ svg # None
     /\ svg.xml_ok
     /\ \A i \in 1..Len(svg.titles) : IsWellFormed(svg.titles[i]) \/ IsCorrupt(svg.titles[i]))
    => LET good == SelectSeq(svg.titles, IsWellFormed)
       IN \A s \in Scripts :
            run[s] # None =>
                /\ run[s].extracted
                /\ SumSamples(run[s].samples) = SumCounts(good)
                /\ (s # "hot" => Len(run[s].samples) = Len(good))
                /\ {run[s].samples[i].name : i \in 1..Len(run[s].samples)}
                     \subseteq {decode_entities(good[i].label) : i \in 1..Len(good)}
                          \cup {good[i].label : i \in 1..Len(good)}

\* "label (N sample[s], P%)" with N >= 1
IsCountedAnnotation(t) ==
    /\ t.ann
    /\ IsDigits(t.count)
    /\ int(t.count) >= 1
    /\ t.unit \in {"samples", "sample"}
    /\ FloatParses(t.pct)

\* The count the extractor's output attributes to the label
Attributed(samples, name) ==
    LET Named(h) == h.name = name IN SumSamples(SelectSeq(samples, Named))

\* C10: on a well-formed XML artifact made of annotations "label (N sample[s],
\* P%)", N >= 1, every extractor attributes to each label the sum of the counts
\* of the annotations carrying it, and extract_flamegraph_data returns one
\* record per distinct label.
C10_CountsSummedByLabel ==
    (/\ svg # None
     /\ svg.xml_ok
     /\ \A i \in 1..Len(svg.titles) : IsCountedAnnotation(svg.titles[i]))
    => \A s \in Scripts :
         run[s] # None =>
            /\ run[s].extracted
            /\ \A i \in 1..Len(svg.titles) :
                 LET raw == svg.titles[i].label
                     name == IF s = "af" THEN raw ELSE decode_entities(raw)
                     Carries(t) == t.label = raw
                 IN Attributed(run[s].samples, name)
                      = SumCounts(SelectSeq(svg.titles, Carries))
            /\ (s = "hot" =>
                  Len(run[s].samples)
                    = Cardinality({svg.titles[i].label : i \in 1..Len(svg.titles)}))

----------------------------------------------------------------------------
(* benchmarks/compare_results.py *)

\* The report scripts have not been started
FlameIdle ==
    /\ label = <<>>
    /\ cats = None
    /\ svg = None
    /\ run = NoRuns

RECURSIVE Pow10(_)
Pow10(n) == IF n = 0 THEN 1 ELSE 10 * Pow10(n - 1)

\* The position of the first "." in s, 0 if there is none
DotAt(s) ==
    IF \E i \in 1..Len(s) : s[i] = "."
    THEN CHOOSE i \in 1..Len(s) : s[i] = "." /\ \A j \in 1..(i - 1) : s[j] # "."
    ELSE 0

Abs(n) == IF n < 0 THEN -n ELSE n

RECURSIVE GCD(_, _)
GCD(a, b) == IF b = 0 THEN a ELSE GCD(b, a % b)

\* The quotient n / d (d # 0) in lowest terms
Reduced(n, d) ==
    LET g == GCD(Abs(n), Abs(d))
    IN [num |-> n \div g, den |-> d \div g]

\* float(text) of a text matched by \d+\.\d+, as an exact quotient
float(s) ==
    LET dot == DotAt(s)
        whole == SubSeq(s, 1, dot - 1)
        frac == SubSeq(s, dot + 1, Len(s))
    IN Reduced(int(whole \o frac), Pow10(Len(frac)))

RatTimes(a, n) == Reduced(a.num * n, a.den)
RatSub(a, b) == Reduced(a.num * b.den - b.num * a.den, a.den * b.den)
RatDiv(a, b) == Reduced(a.num * b.den, a.den * b.num)

\* line 26, line 35: seconds to milliseconds
Thousand == 1000

\* line 45
workloads == <<"concurrent", "media", "backup">>

\* The value and unit texts of the benchmark outputs
MeanTexts == {<<"0", ".", "0", "0">>, <<"5", ".", "0", "9">>, <<"4", ".", "5", "0">>}
SigmaTexts == {<<"1", "1", ".", "7", "1">>}
UnitTexts == {"s", "ms", "us"}

\* A benchmark file: missing, or a text in which the pattern of line 17 finds
\* nothing (timing = None) or captures the four groups of timing: every mean
\* and unit of the mean, and every unit of the deviation
NoFile == [exists |-> FALSE, timing |-> None]
Timing(m, mu, sg, su) ==
    [exists |-> TRUE,
     timing |-> [t |-> "match", mean |-> m, mean_unit |-> mu,
                 sigma |-> sg, sigma_unit |-> su]]
BenchFiles ==
    {NoFile, [exists |-> TRUE, timing |-> None]}
    \cup {Timing(m, mu, sg, "ms") : m \in MeanTexts, mu \in UnitTexts, sg \in SigmaTexts}
    \cup {Timing(<<"5", ".", "0", "9">>, "s", sg, su) : sg \in SigmaTexts, su \in UnitTexts}

\* lines 32-37
SigmaMs(sigma_val, sigma_unit) ==
    IF sigma_unit = "ms" THEN sigma_val
    ELSE IF sigma_unit = "s" THEN RatTimes(sigma_val, Thousand)
    ELSE sigma_val

\* lines 5-42
extract_metrics(file) ==
    IF ~file.exists THEN None              \* open raises: lines 40-42
    ELSE IF file.timing = None THEN None   \* no match: line 42
    ELSE LET mean_val == float(file.timing.mean)
             mean_unit == file.timing.mean_unit
             sigma_val == float(file.timing.sigma)
             sigma_unit == file.timing.sigma_unit
         IN IF mean_unit \notin {"s", "ms"} THEN None   \* line 30
            ELSE [t |-> "pair",
                  mean_ms |-> IF mean_unit = "s" THEN RatTimes(mean_val, Thousand)
                              ELSE mean_val,
                  sigma_ms |-> SigmaMs(sigma_val, sigma_unit)]

\* The change computed as candidate - baseline
ImprovementReversed(baseline_mean, phase1_mean) == RatSub(phase1_mean, baseline_mean)

\* line 62
Improvement(baseline_mean, phase1_mean) == RatSub(baseline_mean, phase1_mean)

\* line 61
ImprovementPct(baseline_mean, phase1_mean) ==
    RatTimes(RatDiv(Improvement(baseline_mean, phase1_mean), baseline_mean), 100)

\* One pass through the body of the for loop (lines 51-76) on the files
\* baseline_file and phase1_file of the next workload
Compare(baseline_file, phase1_file) ==
    /\ cmp_pc = "Running"
    /\ workload <= Len(workloads)
    /\ bench_files' = [baseline |-> baseline_file, phase1 |-> phase1_file]
    /\ LET baseline == extract_metrics(baseline_file)
           phase1 == extract_metrics(phase1_file)
       IN IF baseline # None /\ phase1 # None
          THEN IF baseline.mean_ms.num = 0
               THEN \* line 61: division by a float zero
                    /\ cmp_pc' = "Crashed"
                    /\ cmp_out' = [kind |-> "raised", name |-> workloads[workload],
                                   fault |-> "ZeroDivisionError",
                                   baseline |-> baseline, phase1 |-> phase1]
                    /\ UNCHANGED workload
               ELSE /\ cmp_out' = [kind |-> "comparison", name |-> workloads[workload],
                                   fault |-> "none",
                                   baseline |-> baseline, phase1 |-> phase1,
                                   improvement_ms |->
                                       Improvement(baseline.mean_ms, phase1.mean_ms),
                                   improvement_pct |->
                                       ImprovementPct(baseline.mean_ms, phase1.mean_ms)]
                    /\ workload' = workload + 1
                    /\ UNCHANGED cmp_pc
          ELSE /\ cmp_out' = [kind |-> "could not", name |-> workloads[workload],
                              fault |-> "none",
                              baseline |-> baseline, phase1 |-> phase1]
               /\ workload' = workload + 1
               /\ UNCHANGED cmp_pc
    /\ UNCHANGED <<samplerVars, flameVars, logVars, findingsVars>>

\* The list is exhausted: line 78
CompareDone ==
    /\ cmp_pc = "Running"
    /\ workload > Len(workloads)
    /\ cmp_pc' = "Done"
    /\ UNCHANGED <<workload, bench_files, cmp_out>>
    /\ UNCHANGED <<samplerVars, flameVars, logVars, findingsVars>>

CompareInit ==
    /\ SamplerIdle
    /\ FlameIdle
    /\ cmp_pc = "Running"
    /\ workload = 1
    /\ bench_files = None
    /\ cmp_out = None
    /\ log_file = None
    /\ patterns = None
    /\ tally = None
    /\ findings = None

CompareNext ==
    \/ \E baseline_file \in BenchFiles, phase1_file \in BenchFiles :
          Compare(baseline_file, phase1_file)
    \/ CompareDone

SpecCompare == CompareInit /\ [][CompareNext]_vars

----------------------------------------------------------------------------
(* Properties of the run comparison *)

\* The two values are the same number of milliseconds
SameMs(a, b) == Reduced(a.num, a.den) = Reduced(b.num, b.den)

\* The text's value in milliseconds, for the two units of the timing line
InMs(text, unit) ==
    IF unit = "s" THEN [num |-> float(text).num * 1000, den |-> float(text).den]
    ELSE float(text)

Extracted(which) == cmp_out # None /\ cmp_out[which] # None

\* C11: every pair extract_metrics returns is in milliseconds: the mean and the
\* deviation each come from a value in 's' (multiplied by 1000) or in 'ms'
\* (unchanged), and no returned value is still expressed in another unit.
C11_BothInMilliseconds ==
    \A which \in {"baseline", "phase1"} :
        Extracted(which) =>
            LET timing == bench_files[which].timing
                pair == cmp_out[which]
            IN /\ timing.mean_unit \in {"s", "ms"}
               /\ timing.sigma_unit \in {"s", "ms"}
               /\ SameMs(pair.mean_ms, InMs(timing.mean, timing.mean_unit))
               /\ SameMs(pair.sigma_ms, InMs(timing.sigma, timing.sigma_unit))

Sign(r) ==
    IF r.num = 0 THEN 0 ELSE IF (r.num > 0) = (r.den > 0) THEN 1 ELSE -1

\* C12: for every workload whose two extractions succeed with a baseline mean
\* above 0, the comparison is reported, the change is baselineMean -
\* candidateMean and the percentage change / baselineMean * 100; both have the
\* same sign, positive exactly when the candidate is faster than the baseline.
C12_SignConsistent ==
    (/\ Extracted("baseline")
     /\ Extracted("phase1")
     /\ cmp_out.baseline.mean_ms.num # 0)
    => LET b == cmp_out.baseline.mean_ms
           c == cmp_out.phase1.mean_ms
           faster == c.num * b.den < b.num * c.den
       IN /\ cmp_out.kind = "comparison"
          /\ LET d == cmp_out.improvement_ms
                 p == cmp_out.improvement_pct
             IN \* d = b - c
                /\ Reduced(d.num, d.den)
                     = Reduced(b.num * c.den - c.num * b.den, b.den * c.den)
                \* p / 100 = d / b
                /\ Reduced(p.num, p.den * 100) = Reduced(d.num * b.den, d.den * b.num)
                /\ Sign(d) = Sign(p)
                /\ (Sign(d) = 1 <=> faster)

\* C12 witness: baseline '5.09 s', candidate '4.50 s': +590 ms, +11.59...%
C12_Witness ==
    /\ cmp_out # None
    /\ cmp_out.kind = "comparison"
    /\ bench_files.baseline.timing.mean = <<"5", ".", "0", "9">>
    /\ bench_files.baseline.timing.mean_unit = "s"
    /\ bench_files.phase1.timing.mean = <<"4", ".", "5", "0">>
    /\ bench_files.phase1.timing.mean_unit = "s"
    /\ SameMs(cmp_out.improvement_ms, [num |-> 590, den |-> 1])
    /\ SameMs(cmp_out.improvement_pct, [num |-> 5900, den |-> 509])

\* C13: the comparison run processes every workload of its list: no extraction
\* outcome ends it with an exception, it finishes only after the last
\* workload, and a workload with a failed extraction is reported as 'Could not
\* extract metrics'.
C13_EveryWorkloadProcessed ==
    /\ cmp_pc # "Crashed"
    /\ (cmp_pc = "Done" => workload = Len(workloads) + 1)
    /\ (cmp_out # None =>
          (cmp_out.kind = "could not"
             <=> (cmp_out.baseline = None \/ cmp_out.phase1 = None)))

----------------------------------------------------------------------------
(* analyze_profiling.py: analyze_log_patterns *)

MaxLines == 2

\* The lines a debug log is made of
LogLines ==
    {<<"g", "e", "t", "a", "t", "t", "r", " ", "i", "n", "o", "=", "1">>, <<"G", "E", "T", "A", "T", "T", "R", " ", "i", "n", "o", "=", "1">>, <<"s", "t", "a", "t", " ", "/", "a">>, <<"L", "O", "O", "K", "U", "P", " ", "n", "a", "m", "e", "=", "a">>,
     <<"c", "a", "c", "h", "e", " ", "l", "o", "o", "k", "u", "p", " ", "a">>, <<"C", "a", "c", "h", "e", " ", "H", "I", "T", " ", "a">>, <<"c", "a", "c", "h", "e", " ", "m", "i", "s", "s", " ", "a">>, <<"r", "e", "a", "d", " ", "t", "h", "e", "n", " ", "w", "r", "i", "t", "e">>,
     <<"m", "k", "d", "i", "r", " ", "/", "d">>, <<"U", "n", "l", "i", "n", "k", " ", "/", "a">>, <<"m", "o", "u", "n", "t", "e", "d">>}

\* A debug log: missing, or a sequence of lines
LogFiles ==
    {[exists |-> FALSE, lines |-> <<>>]}
    \cup {[exists |-> TRUE, lines |-> ls] : ls \in SeqsUpTo(LogLines, MaxLines)}

\* The number of lines for which the test holds
RECURSIVE CountTrue(_)
CountTrue(flags) ==
    IF flags = <<>> THEN 0
    ELSE (IF Head(flags) THEN 1 ELSE 0) + CountTrue(Tail(flags))

\* The number of lines that contain the keyword once in lower case
CountLower(lines, keyword) ==
    CountTrue([i \in 1..Len(lines) |-> In(keyword, lower(lines[i]))])

\* line 92: 'getattr' in line or 'stat' in line.lower()
IsStatLine(line) == In(<<"g", "e", "t", "a", "t", "t", "r">>, line) \/ In(<<"s", "t", "a", "t">>, lower(line))

\* lines 75-111; open raising leaves the counters at 0 (lines 108-109)
analyze_log_patterns(file) ==
    LET lines == IF file.exists THEN file.lines ELSE <<>>
    IN [stat_calls |-> CountTrue([i \in 1..Len(lines) |-> IsStatLine(lines[i])]),
        lookup_calls |-> CountLower(lines, <<"l", "o", "o", "k", "u", "p">>),
        read_calls |-> CountLower(lines, <<"r", "e", "a", "d">>),
        write_calls |-> CountLower(lines, <<"w", "r", "i", "t", "e">>),
        mkdir_calls |-> CountLower(lines, <<"m", "k", "d", "i", "r">>),
        unlink_calls |-> CountLower(lines, <<"u", "n", "l", "i", "n", "k">>),
        cache_lookups |-> 0,     \* line 84: never incremented
        cache_hits |-> CountLower(lines, <<"c", "a", "c", "h", "e", " ", "h", "i", "t">>),
        cache_misses |-> CountLower(lines, <<"c", "a", "c", "h", "e", " ", "m", "i", "s", "s">>)]

\* analyze_log_patterns(log_file)
ScanLog ==
    /\ log_file # None
    /\ patterns = None
    /\ patterns' = analyze_log_patterns(log_file)
    /\ UNCHANGED log_file
    /\ UNCHANGED <<samplerVars, flameVars, compareVars, findingsVars>>

LogInit ==
    /\ SamplerIdle
    /\ FlameIdle
    /\ cmp_pc = "Idle"
    /\ workload = 1
    /\ bench_files = None
    /\ cmp_out = None
    /\ log_file \in LogFiles
    /\ patterns = None
    /\ tally = None
    /\ findings = None

LogNext == ScanLog

SpecLog == LogInit /\ [][LogNext]_vars

----------------------------------------------------------------------------
(* Properties of the log scan *)

\* The keywords of the nine classes
ClassKeywords ==
    [stat_calls |-> {<<"g", "e", "t", "a", "t", "t", "r">>, <<"s", "t", "a", "t">>},
     lookup_calls |-> {<<"l", "o", "o", "k", "u", "p">>},
     read_calls |-> {<<"r", "e", "a", "d">>},
     write_calls |-> {<<"w", "r", "i", "t", "e">>},
     mkdir_calls |-> {<<"m", "k", "d", "i", "r">>},
     unlink_calls |-> {<<"u", "n", "l", "i", "n", "k">>},
     cache_lookups |-> {<<"c", "a", "c", "h", "e", " ", "l", "o", "o", "k", "u", "p">>},
     cache_hits |-> {<<"c", "a", "c", "h", "e", " ", "h", "i", "t">>},
     cache_misses |-> {<<"c", "a", "c", "h", "e", " ", "m", "i", "s", "s">>}]

\* The number of lines of the log that contain a keyword of the class, in any case
Matching(class) ==
    Cardinality({i \in 1..Len(log_file.lines) :
                    \E k \in ClassKeywords[class] : In(k, lower(log_file.lines[i]))})

\* C14: after the scan of a log, each of the nine counters is the number of
\* lines that contain the class's keyword in any case; a line of several
\* classes counts once in each of them.
C14_CountersMatchLines ==
    (patterns # None /\ log_file.exists) =>
        /\ DOMAIN patterns = DOMAIN ClassKeywords
        /\ \A class \in DOMAIN ClassKeywords : patterns[class] = Matching(class)

----------------------------------------------------------------------------
(* Properties of the reports on an artifact without samples *)

\* C15: when the extraction yields zero samples, every flame-graph report entry
\* point ends without an exception, states that nothing was found
\* (analyze_flamegraph_simple: "No hotspots found"; extract_flamegraph_hotspots:
\* "Could not extract function data"; analyze_flamegraph: "Found 0 unique
\* function samples" over empty tables) and prints no percentage.
C15_EmptyReportsNoHotspots ==
    \A s \in Scripts :
        (run[s] # None /\ run[s].extracted /\ run[s].samples = <<>>) =>
            /\ run[s].fault = "none"
            /\ run[s].outcome # "raised"
            /\ (s = "simple" => run[s].outcome = "no hotspots")
            /\ (s = "hot" => run[s].outcome = "no data")
            /\ (s = "af" => run[s].found = 0 /\ run[s].top = <<>>)
            /\ run[s].categories = NoDict
            /\ run[s].pcts = NoDict

\* C15 witness: the three scripts have run on an artifact whose only title
\* carries no annotation
C15_Witness ==
    /\ svg # None
    /\ svg.xml_ok
    /\ Len(svg.titles) = 1
    /\ ~svg.titles[1].ann
    /\ \A s \in Scripts : run[s] # None /\ run[s].extracted /\ run[s].samples = <<>>

----------------------------------------------------------------------------
(* The diagnostic statements of analyze_flamegraph_simple.main (lines 119-187) *)
(* and extract_flamegraph_hotspots.main (lines 144-202), applied to category   *)
(* counts                                                                      *)

\* The total count of a tally
TallyTotal == 20

\* The counts of a category: 0%, 15%, 20%, 30% and 35% of TallyTotal
Shares == {0, 3, 4, 6, 7}

SimpleKeys == {"Lock Wait", "Synchronization"}
HotKeys == {"Lock/Sync", "Cache", "Crypto", "FUSE Ops", "Async Runtime"}

RECURSIVE SumOver(_, _)
SumOver(f, keys) ==
    IF keys = {} THEN 0
    ELSE LET k == CHOOSE x \in keys : TRUE
         IN f[k] + SumOver(f, keys \ {k})

\* The defaultdict of the category counts: the categories with a sample, the
\* samples of no key category under "Other"
Categories(f, keys) ==
    LET count(k) == IF k = "Other" THEN TallyTotal - SumOver(f, keys) ELSE f[k]
    IN [k \in {x \in keys \cup {"Other"} : count(x) > 0} |-> count(k)]

TalliesOf(script, keys) ==
    {[script |-> script, categories |-> Categories(f, keys), total_samples |-> TallyTotal] :
        f \in {g \in [keys -> Shares] : SumOver(g, keys) <= TallyTotal}}

Tallies == TalliesOf("simple", SimpleKeys) \cup TalliesOf("hot", HotKeys)

\* analyze_flamegraph_simple.main, lines 119-187
DiagnoseSimple ==
    /\ tally # None
    /\ tally.script = "simple"
    /\ findings = None
    /\ findings' = [t |-> "printed",
                    statements |-> simple_findings(tally.categories, tally.total_samples)]
    /\ UNCHANGED tally
    /\ UNCHANGED <<samplerVars, flameVars, compareVars, logVars>>

\* extract_flamegraph_hotspots.main, lines 144-202
DiagnoseHotspots ==
    /\ tally # None
    /\ tally.script = "hot"
    /\ findings = None
    /\ findings' = [t |-> "printed",
                    statements |-> hotspots_findings(tally.categories, tally.total_samples)]
    /\ UNCHANGED tally
    /\ UNCHANGED <<samplerVars, flameVars, compareVars, logVars>>

FindingsInit ==
    /\ SamplerIdle
    /\ FlameIdle
    /\ cmp_pc = "Idle"
    /\ workload = 1
    /\ bench_files = None
    /\ cmp_out = None
    /\ log_file = None
    /\ patterns = None
    /\ tally \in Tallies
    /\ findings = None

FindingsNext == DiagnoseSimple \/ DiagnoseHotspots

SpecFindings == FindingsInit /\ [][FindingsNext]_vars

\* The category's share of the tally is above the threshold, in percent
Above(category, threshold) ==
    (IF category \in DOMAIN tally.categories THEN tally.categories[category] ELSE 0) * 100
        > threshold * tally.total_samples

\* C16: every diagnostic statement is printed if and only if its threshold rule
\* holds on the category percentages: in analyze_flamegraph_simple the
\* lock-contention finding (bottleneck statement, root-cause text, remediation
\* list) iff Lock Wait > 20; in extract_flamegraph_hotspots the five findings
\* iff Lock/Sync > 30, Cache > 15 and Cache > Crypto, Crypto > 20,
\* FUSE Ops > 20, Async Runtime > 20.
C16_FindingsFollowThresholds ==
    findings # None =>
        /\ tally.script = "simple" =>
             \A f \in {"critical bottleneck", "primary bottleneck", "actual cpu work",
                       "root cause", "optimization strategies"} :
                 f \in findings.statements <=> Above("Lock Wait", 20)
        /\ tally.script = "hot" =>
             /\ "lock contention" \in findings.statements <=> Above("Lock/Sync", 30)
             /\ "cache bottleneck" \in findings.statements
                  <=> (Above("Cache", 15)
                         /\ GetOr0(tally.categories, "Cache")
                              > GetOr0(tally.categories, "Crypto"))
             /\ "crypto" \in findings.statements <=> Above("Crypto", 20)
             /\ "fuse operations" \in findings.statements <=> Above("FUSE Ops", 20)
             /\ "async runtime" \in findings.statements <=> Above("Async Runtime", 20)
             /\ findings.statements \subseteq {"lock contention", "cache bottleneck", "crypto",
                                    "fuse operations", "async runtime"}

----------------------------------------------------------------------------
(* Termination of the Live Sampler *)

\* The loop of main with a wall clock that only advances: the process is not
\* suspended, so the next statement of main is always executed
LiveNext ==
    \/ \E result \in CommandResults, lat \in 0..MaxLatency : Iterate(result, lat)
    \/ LoopExit

SpecLive == SamplerInit /\ [][LiveNext]_vars /\ WF_vars(LiveNext)

\* C17: with a clock that advances and polls that return, the Live Sampler
\* eventually reaches Stopped (prints "Profiling complete"), for every duration
\* and every sequence of poll outcomes.
C17_EventuallyStopped == <>(pc = "Stopped")

====
